---- MODULE Spec2Model ----
(***************************************************************************)
(* A model of pylsyncd (src/pylsyncd.py): the ItemQueue staging structure, *)
(* Destination.synchronize, the per-destination worker loop, the Timer and *)
(* the queue_item fan-out over the bounded per-destination channels.       *)
(*                                                                         *)
(* Paths are sequences of characters so that the string tests of the code  *)
(* (len, startswith, the appended separator) are computed, not assumed.    *)
(* Time is discrete.  A thread's computation takes no time; time passes    *)
(* only while every thread is blocked (q.get with a positive timeout,      *)
(* time.sleep, a full channel, _monitoring.wait) or the dispatcher idles.  *)
(***************************************************************************)
EXTENDS Integers, Sequences, FiniteSets, TLC

VARIABLES
  iq,          \* one ItemQueue object: [dirs, trees], both Python lists
  last,        \* the last optimize()/synchronize() call made on iq
  fs,          \* the local filesystem: the set of paths that exist
  monitoring,  \* _monitoring (threading.Event)
  dry_run,     \* _dry_run
  initial_sync,\* Destination.initial_sync (the same for every destination)
  nworkers,    \* _nworkers = len(destinations) = len(_queues)
  chan,        \* _queues: chan[d] is the Queue.Queue of destination d
  queue,       \* destination.queue of every destination
  pc,          \* where every worker thread stands
  failcount,   \* the worker's local failcount
  timer,       \* the worker's Timer: [running, age], age = now - start_time
  sleepleft,   \* what is left of the worker's time.sleep(sleeptime)
  dpc,         \* the dispatcher inside queue_item: [at, item, k]
  produced,    \* history: the items queue_item was called with, in order
  received,    \* history: the items every worker got from its channel
  fails,       \* history: consecutive failed synchronize calls per worker
  viaInitial,  \* history: the worker was dropped by a failed initial sync
  slept,       \* history: measured length of the worker's last sleep
  sinceLast,   \* history: time since the last queue_item call (capped)
  anyFail,     \* history: some transfer invocation has failed
  dest,        \* one Destination object: [path, remote, name]
  target,      \* the string last assigned to dest.path
  watching,    \* _watchmanager holds the recursive watch on source.path
  event,       \* the event last handed to a ProcessEvent handler
  step,        \* history: what the last step of every worker called:
               \*          [kind, calls, flushed]
  totalSleep   \* history: time slept in back-off since the last success

vars == << iq, last, dest, target, fs, monitoring, dry_run, initial_sync,
           nworkers, watching, event, chan, queue, pc, failcount, timer,
           sleepleft, dpc, produced, received, fails, totalSleep, viaInitial,
           slept, sinceLast, anyFail, step >>

destvars == << dest, target >>

sysvars == << monitoring, dry_run, initial_sync, nworkers, watching, event,
              chan, queue, pc, failcount, timer, sleepleft, dpc, produced,
              received, fails, totalSleep, viaInitial, slept, sinceLast,
              anyFail, step >>

(***************************************************************************)
(* Program constants.  The values are scaled down from the defaults of the *)
(* source (60, 1000, 100, 100000, 60, 5); their order relations are kept:  *)
(* MAX_CHANGES_SYNC < MAX_CHANGES, MAX_SYNC_FAILURES > 2.                  *)
(***************************************************************************)
TIMER_LIMIT == 2
MAX_CHANGES == 2
MAX_CHANGES_SYNC == 1
MAX_QUEUE_LEN == 2
TIME_SLEEP_FAILURE == 2
MAX_SYNC_FAILURES == 3

\* Bound of the model: how many items the dispatcher produces at most.
MaxProduced == 3

\* os.path.sep
sep == "/"

(***************************************************************************)
(* Paths                                                                   *)
(***************************************************************************)
Range(s) == { s[i] : i \in DOMAIN s }

NoDup(s) == \A i, j \in DOMAIN s : i # j => s[i] # s[j]

\* str.startswith
startswith(s, prefix) ==
  /\ Len(prefix) <= Len(s)
  /\ SubSeq(s, 1, Len(prefix)) = prefix

\* str.endswith
endswith(s, suffix) ==
  /\ Len(suffix) <= Len(s)
  /\ SubSeq(s, Len(s) - Len(suffix) + 1, Len(s)) = suffix

\* str.find: the first index at which sub occurs in s, 0 if it does not
\* (Python's -1; indices are 1-based here).
find(s, sub) ==
  LET at == { i \in 1 .. (Len(s) - Len(sub) + 1) :
                SubSeq(s, i, i + Len(sub) - 1) = sub }
  IN  IF at = {} THEN 0 ELSE CHOOSE i \in at : \A k \in at : i <= k

\* sub in s
contains(s, sub) == find(s, sub) # 0

\* s.split(sub, 1)[0] and s.split(sub, 1)[-1]
split_first(s, sub) ==
  IF contains(s, sub) THEN SubSeq(s, 1, find(s, sub) - 1) ELSE s

split_last(s, sub) ==
  IF contains(s, sub) THEN SubSeq(s, find(s, sub) + Len(sub), Len(s)) ELSE s

\* s.rsplit(sub, 1)[-1] for a one-character sub
rsplit_last(s, sub) ==
  LET at == { i \in DOMAIN s : << s[i] >> = sub }
  IN  IF at = {} THEN s
      ELSE SubSeq(s, (CHOOSE i \in at : \A k \in at : i >= k) + 1, Len(s))

\* s.split(sep): the components between the separators, empty ones included
\* (one scan over s[i..], comps and cur being the components closed so far
\* and the one being read).
RECURSIVE splitscan(_, _, _, _)
splitscan(s, i, comps, cur) ==
  IF i > Len(s) THEN Append(comps, cur)
  ELSE IF s[i] = sep THEN splitscan(s, i + 1, Append(comps, cur), << >>)
  ELSE splitscan(s, i + 1, comps, Append(cur, s[i]))

split(s) == splitscan(s, 1, << >>, << >>)

\* sep.join(comps)
RECURSIVE joincomps(_)
joincomps(comps) ==
  IF comps = << >> THEN << >>
  ELSE IF Len(comps) = 1 THEN comps[1]
  ELSE comps[1] \o << sep >> \o joincomps(Tail(comps))

\* The loop of os.path.normpath over comps[i..], new_comps collected so far.
RECURSIVE normcomps(_, _, _, _)
normcomps(comps, i, new_comps, initial_slashes) ==
  IF i > Len(comps) THEN new_comps
  ELSE LET comp == comps[i]
           n    == Len(new_comps)
       IN  IF comp = << >> \/ comp = << "." >>
           THEN normcomps(comps, i + 1, new_comps, initial_slashes)
           ELSE IF \/ comp # << ".", "." >>
                   \/ (initial_slashes = 0 /\ n = 0)
                   \/ (n > 0 /\ new_comps[n] = << ".", "." >>)
           THEN normcomps(comps, i + 1, Append(new_comps, comp),
                          initial_slashes)
           ELSE IF n > 0
           THEN normcomps(comps, i + 1, SubSeq(new_comps, 1, n - 1),
                          initial_slashes)
           ELSE normcomps(comps, i + 1, new_comps, initial_slashes)

\* os.path.normpath (posixpath)
normpath(path) ==
  IF path = << >> THEN << "." >>
  ELSE LET initial_slashes ==
             IF ~startswith(path, << sep >>) THEN 0
             ELSE IF startswith(path, << sep, sep >>)
                     /\ ~startswith(path, << sep, sep, sep >>) THEN 2
             ELSE 1
           body == joincomps(normcomps(split(path), 1, << >>,
                                       initial_slashes))
           res  == (IF initial_slashes = 2 THEN << sep, sep >>
                    ELSE IF initial_slashes = 1 THEN << sep >> ELSE << >>)
                   \o body
       IN  IF res = << >> THEN << "." >> ELSE res

\* os.getcwd(): the working directory of the process, "/w".
getcwd == << "/", "w" >>

\* os.path.isabs, os.path.join (posixpath, two arguments)
isabs(s) == startswith(s, << sep >>)

join(a, b) ==
  IF startswith(b, << sep >>) THEN b
  ELSE IF a = << >> \/ endswith(a, << sep >>) THEN a \o b
  ELSE a \o << sep >> \o b

\* os.path.abspath
abspath(s) == normpath(IF isabs(s) THEN s ELSE join(getcwd, s))

_is_subdir(parent, dir) ==
  \E path_parent \in { abspath(parent) \o << sep >> } :
  \E path_dir \in { abspath(dir) } :
    Len(path_dir) > Len(path_parent) /\ startswith(path_dir, path_parent)

\* The paths of the model: "/a", "/ab", "/a/b", "/a/b/c".
P_a     == << "/", "a" >>
P_ab    == << "/", "a", "b" >>
P_a_b   == << "/", "a", "/", "b" >>
P_a_b_c == << "/", "a", "/", "b", "/", "c" >>

Paths == { P_a, P_ab, P_a_b, P_a_b_c }

\* Path p lies inside directory q.
Inside(p, q) == Len(p) > Len(q) + 1 /\ startswith(p, q \o << sep >>)

\* What a filesystem can look like: a directory exists only inside an
\* existing directory.
FsStates == { S \in SUBSET Paths : \A p \in S : \A q \in Paths :
                                      Inside(p, q) => q \in S }

(***************************************************************************)
(* Item, ItemQueue                                                         *)
(***************************************************************************)
Item(path, recursive) == [path |-> path, recursive |-> recursive]

Items == { Item(p, r) : p \in Paths, r \in BOOLEAN }

\* ItemQueue.__init__
EmptyQueue == [dirs |-> << >>, trees |-> << >>]

\* ItemQueue.__len__
QLen(q) == Len(q.dirs) + Len(q.trees)

\* ItemQueue.add
add(q, item) ==
  IF item.recursive
  THEN IF item.path \notin Range(q.trees)
       THEN [q EXCEPT !.trees = Append(@, item.path)] ELSE q
  ELSE IF item.path \notin Range(q.dirs) /\ item.path \notin Range(q.trees)
       THEN [q EXCEPT !.dirs = Append(@, item.path)] ELSE q

\* list.sort(lambda x,y: len(x) - len(y)): a stable sort by length.
RECURSIVE InsertByLen(_, _)
InsertByLen(s, x) ==
  IF s = << >> THEN << x >>
  ELSE IF Len(x) < Len(s[1]) THEN << x >> \o s
  ELSE << s[1] >> \o InsertByLen(Tail(s), x)

RECURSIVE SortByLen(_)
SortByLen(s) ==
  IF s = << >> THEN << >>
  ELSE InsertByLen(SortByLen(SubSeq(s, 1, Len(s) - 1)), s[Len(s)])

\* for tree in over[i..]: cur = filter(lambda x: not _is_subdir(tree, x), cur)
RECURSIVE FilterLoop(_, _, _)
FilterLoop(over, i, cur) ==
  IF i > Len(over) THEN cur
  ELSE FilterLoop(over, i + 1,
                  SelectSeq(cur, LAMBDA x : ~_is_subdir(over[i], x)))

\* A mutant of optimize: the pass over dirs is left out.
optimize_nodirs(q, exists) ==
  IF QLen(q) = 0 THEN q
  ELSE LET sorted == SortByLen(q.trees)
           trees1 == IF Len(q.trees) > 0
                     THEN FilterLoop(sorted, 1, sorted) ELSE q.trees
       IN  [dirs  |-> SelectSeq(q.dirs, LAMBDA x : x \in exists),
            trees |-> SelectSeq(trees1, LAMBDA x : x \in exists)]

\* A mutant of optimize: deleted trees are not filtered out.
optimize_keeptrees(q, exists) ==
  IF QLen(q) = 0 THEN q
  ELSE LET sorted == SortByLen(q.trees)
           trees1 == IF Len(q.trees) > 0
                     THEN FilterLoop(sorted, 1, sorted) ELSE q.trees
           dirs1  == IF Len(q.trees) > 0 /\ Len(q.dirs) > 0
                     THEN FilterLoop(trees1, 1, q.dirs) ELSE q.dirs
       IN  [dirs  |-> SelectSeq(dirs1, LAMBDA x : x \in exists),
            trees |-> trees1]

\* for i in 1..: the element right after cur[i] goes if it lies under cur[i].
RECURSIVE NeighbourLoop(_, _)
NeighbourLoop(cur, i) ==
  IF i >= Len(cur) THEN cur
  ELSE IF _is_subdir(cur[i], cur[i + 1])
       THEN NeighbourLoop(SubSeq(cur, 1, i) \o SubSeq(cur, i + 2, Len(cur)),
                          i + 1)
       ELSE NeighbourLoop(cur, i + 1)

\* A mutant of optimize: the subtree pass runs over the list it is
\* shortening and compares a tree with its successor only.
optimize_neighbour(q, exists) ==
  IF QLen(q) = 0 THEN q
  ELSE LET sorted == SortByLen(q.trees)
           trees1 == IF Len(q.trees) > 0
                     THEN NeighbourLoop(sorted, 1) ELSE q.trees
           dirs1  == IF Len(q.trees) > 0 /\ Len(q.dirs) > 0
                     THEN FilterLoop(trees1, 1, q.dirs) ELSE q.dirs
       IN  [dirs  |-> SelectSeq(dirs1, LAMBDA x : x \in exists),
            trees |-> SelectSeq(trees1, LAMBDA x : x \in exists)]

\* ItemQueue.optimize.  The first loop runs over the list object that was
\* sorted in place while self.trees is rebound to the filtered copies; the
\* second runs over the collapsed trees.  exists is what os.path.exists
\* answers during the call.
optimize(q, exists) ==
  IF QLen(q) = 0 THEN q
  ELSE LET sorted == SortByLen(q.trees)
           trees1 == IF Len(q.trees) > 0
                     THEN FilterLoop(sorted, 1, sorted) ELSE q.trees
           dirs1  == IF Len(q.trees) > 0 /\ Len(q.dirs) > 0
                     THEN FilterLoop(trees1, 1, q.dirs) ELSE q.dirs
       IN  [dirs  |-> SelectSeq(dirs1, LAMBDA x : x \in exists),
            trees |-> SelectSeq(trees1, LAMBDA x : x \in exists)]

\* ItemQueue.empty_dirs, ItemQueue.empty_trees
empty_dirs(q) == [q EXCEPT !.dirs = << >>]
empty_trees(q) == [q EXCEPT !.trees = << >>]

(***************************************************************************)
(* Destination.synchronize                                                 *)
(***************************************************************************)
\* _rsync: in dry-run mode no process is spawned and success is assumed;
\* otherwise the answer is whether rsync.wait() == 0 (exit0).
rsync(exit0) == dry_run \/ exit0

\* Destination.__synchronize: [ok, called], called = the tool was invoked.
synchronize_half(items, exit0) ==
  IF Len(items) = 0 THEN [ok |-> TRUE, called |-> FALSE]
  ELSE [ok |-> rsync(exit0), called |-> TRUE]

\* A mutant of synchronize: the dirs are emptied only if the trees went well.
synchronize_coupled(q, exitT, exitD) ==
  IF QLen(q) = 0
  THEN [queue |-> q, ret |-> TRUE, calls |-> << >>, failed |-> FALSE]
  ELSE LET resT == synchronize_half(q.trees, exitT)
           q1   == IF resT.ok THEN empty_trees(q) ELSE q
           resD == synchronize_half(q1.dirs, exitD)
           q2   == IF resD.ok /\ resT.ok THEN empty_dirs(q1) ELSE q1
       IN  [queue  |-> q2,
            ret    |-> (QLen(q2) = 0),
            calls  |-> (IF resT.called THEN << "recursive" >> ELSE << >>)
                       \o (IF resD.called THEN << "non-recursive" >> ELSE << >>),
            failed |-> (resT.called /\ ~resT.ok) \/ (resD.called /\ ~resD.ok)]

\* A mutant of synchronize: empty_trees() is not called.
synchronize_keeptrees(q, exitT, exitD) ==
  IF QLen(q) = 0
  THEN [queue |-> q, ret |-> TRUE, calls |-> << >>, failed |-> FALSE]
  ELSE LET resT == synchronize_half(q.trees, exitT)
           resD == synchronize_half(q.dirs, exitD)
           q2   == IF resD.ok THEN empty_dirs(q) ELSE q
       IN  [queue  |-> q2,
            ret    |-> (QLen(q2) = 0),
            calls  |-> (IF resT.called THEN << "recursive" >> ELSE << >>)
                       \o (IF resD.called THEN << "non-recursive" >> ELSE << >>),
            failed |-> (resT.called /\ ~resT.ok) \/ (resD.called /\ ~resD.ok)]

\* Destination.synchronize on queue q, exitT and exitD being the exit
\* status of the recursive and of the non-recursive transfer.  The result
\* gives the queue afterwards, the return value, the transfer invocations
\* made and whether one of them failed.
synchronize(q, exitT, exitD) ==
  IF QLen(q) = 0
  THEN [queue |-> q, ret |-> TRUE, calls |-> << >>, failed |-> FALSE]
  ELSE LET resT == synchronize_half(q.trees, exitT)
           q1   == IF resT.ok THEN empty_trees(q) ELSE q
           resD == synchronize_half(q1.dirs, exitD)
           q2   == IF resD.ok THEN empty_dirs(q1) ELSE q1
       IN  [queue  |-> q2,
            ret    |-> (QLen(q2) = 0),
            calls  |-> (IF resT.called THEN << "recursive" >> ELSE << >>)
                       \o (IF resD.called THEN << "non-recursive" >> ELSE << >>),
            failed |-> (resT.called /\ ~resT.ok) \/ (resD.called /\ ~resD.ok)]

(***************************************************************************)
(* Destination.path (setter)                                               *)
(***************************************************************************)
RsyncScheme == << "r", "s", "y", "n", "c", ":", "/", "/" >>

\* Destination.path = s: the remote flag, the shortname and the stored path.
path_setter(s) ==
  IF startswith(s, RsyncScheme)
  THEN LET server1 == split_last(s, RsyncScheme)
           server2 == split_first(server1, << "/" >>)
           server3 == split_last(server2, << "@" >>)
           server4 == split_first(server3, << ":" >>)
       IN  [remote |-> TRUE, name |-> server4,
            path |-> IF ~endswith(s, << "/" >>) THEN s \o << "/" >> ELSE s]
  ELSE IF contains(s, << ":", ":" >>)
  THEN LET server1 == split_first(s, << ":", ":" >>)
           server2 == split_last(server1, << "@" >>)
           server3 == split_first(server2, << ":" >>)
       IN  [remote |-> TRUE, name |-> server3,
            path |-> IF ~endswith(s, << "/" >>) THEN s \o << "/" >> ELSE s]
  ELSE IF contains(s, << ":" >>)
  THEN LET server1 == split_first(s, << ":" >>)
           server2 == split_last(server1, << "@" >>)
           server3 == split_first(server2, << ":" >>)
       IN  [remote |-> TRUE, name |-> server3,
            path |-> IF ~endswith(s, << ":" >>) /\ ~endswith(s, << "/" >>)
                     THEN s \o << "/" >> ELSE s]
  ELSE [remote |-> FALSE,
        name |-> rsplit_last(normpath(s), << "/" >>),
        path |-> abspath(s) \o << "/" >>]

(***************************************************************************)
(* One ItemQueue/Destination object under arbitrary calls (SpecQ)          *)
(***************************************************************************)
NoCall == [op |-> "none", pre |-> EmptyQueue, seen |-> {},
           exit |-> << TRUE, TRUE >>, ret |-> TRUE, calls |-> << >>]

Dests == { 1, 2 }

\* No event handled yet; no worker step made yet.
NoEvent == [kind |-> "none", dir |-> FALSE, path |-> << >>, name |-> << >>]
NoStep == [kind |-> "none", calls |-> << >>, flushed |-> FALSE]

\* The state of the threads before init() has started them.
SysIdle ==
  /\ monitoring = FALSE
  /\ watching = FALSE
  /\ event = NoEvent
  /\ step = [d \in Dests |-> NoStep]
  /\ totalSleep = [d \in Dests |-> 0]
  /\ chan = [d \in Dests |-> << >>]
  /\ queue = [d \in Dests |-> EmptyQueue]
  /\ pc = [d \in Dests |-> "wait"]
  /\ failcount = [d \in Dests |-> 0]
  /\ timer = [d \in Dests |-> [running |-> FALSE, age |-> 0]]
  /\ sleepleft = [d \in Dests |-> 0]
  /\ dpc = [at |-> "idle", item |-> Item(P_a, FALSE), k |-> 1]
  /\ produced = << >>
  /\ received = [d \in Dests |-> << >>]
  /\ fails = [d \in Dests |-> 0]
  /\ viaInitial = [d \in Dests |-> FALSE]
  /\ slept = [d \in Dests |-> 0]
  /\ sinceLast = 0
  /\ anyFail = FALSE

\* The destination of the specifications that are not about its path.
DestIdle ==
  /\ target = << "/", "h" >>
  /\ dest = path_setter(target)

InitQ ==
  /\ initial_sync = FALSE
  /\ DestIdle
  /\ nworkers = 1
  /\ iq = EmptyQueue
  /\ last = NoCall
  /\ fs \in FsStates
  /\ dry_run = FALSE
  /\ SysIdle

QAdd(item) ==
  /\ iq' = add(iq, item)
  /\ last' = NoCall
  /\ UNCHANGED << destvars, fs, sysvars >>

QOptimize ==
  /\ iq' = optimize(iq, fs)
  /\ last' = [NoCall EXCEPT !.op = "optimize", !.pre = iq, !.seen = fs]
  /\ UNCHANGED << destvars, fs, sysvars >>

QSynchronize(exitT, exitD) ==
  LET r == synchronize(iq, exitT, exitD)
  IN  /\ iq' = r.queue
      /\ last' = [op |-> "synchronize", pre |-> iq, seen |-> {},
                  exit |-> << rsync(exitT), rsync(exitD) >>,
                  ret |-> r.ret, calls |-> r.calls]
      /\ UNCHANGED << destvars, fs, sysvars >>

\* The filesystem changes under the program: path p is created inside an
\* existing directory, or removed when nothing is left inside it.
FsToggle(S, p, universe) ==
  IF p \in S
  THEN /\ \A c \in S : ~Inside(c, p)
       /\ fs' = S \ { p }
  ELSE /\ \A a \in universe : Inside(p, a) => a \in S
       /\ fs' = S \cup { p }

QFsChange ==
  /\ \E p \in Paths : FsToggle(fs, p, Paths)
  /\ last' = NoCall
  /\ UNCHANGED << iq, destvars, sysvars >>

NextQ ==
  \/ \E item \in Items : QAdd(item)
  \/ QOptimize
  \/ \E exitT, exitD \in BOOLEAN : QSynchronize(exitT, exitD)
  \/ QFsChange

SpecQ == InitQ /\ [][NextQ]_vars

(***************************************************************************)
(* One Destination object and the strings assigned to its path (SpecD)     *)
(***************************************************************************)
\* Bound of the model: the length of a target string (after "rsync://",
\* where it starts with that).
MaxTargetLen == 4

Alphabet == { "/", ":", "h", "@" }

Strings(n) == UNION { [1 .. k -> Alphabet] : k \in 0 .. n }

Targets ==
  (Strings(MaxTargetLen) \ { << >> })
    \cup { RsyncScheme \o b : b \in Strings(MaxTargetLen) }

\* Destination.__init__: self.path = path
InitD ==
  /\ target \in Targets
  /\ dest = path_setter(target)
  /\ iq = EmptyQueue
  /\ last = NoCall
  /\ fs = {}
  /\ initial_sync = FALSE
  /\ nworkers = 1
  /\ dry_run = FALSE
  /\ SysIdle

\* destination.path = destination.path: the stored path is parsed again.
DReassign ==
  /\ target' = dest.path
  /\ dest' = path_setter(dest.path)
  /\ UNCHANGED << iq, last, fs, sysvars >>

NextD == DReassign

SpecD == InitD /\ [][NextD]_vars

(***************************************************************************)
(* Timer                                                                   *)
(***************************************************************************)
Max(a, b) == IF a >= b THEN a ELSE b
Min(a, b) == IF a <= b THEN a ELSE b

\* Timer.start(limit), Timer.reset: start_time = time.time()
TimerStart == [running |-> TRUE, age |-> 0]
TimerReset(t) == [t EXCEPT !.age = 0]

\* Timer.remaining: max(0, start_time + time_limit - now)
TimerRemaining(t) == Max(0, TIMER_LIMIT - t.age)

(***************************************************************************)
(* The threads: init/monitor, the workers, the dispatcher (Spec)           *)
(***************************************************************************)
\* source.path, the paths below it and the filesystems over them.
SourcePath == P_a
SysPaths == { P_a, P_a_b }
SysFs == { {}, { P_a }, { P_a, P_a_b } }

\* A mutant of Dropping: one more failure is allowed.
DroppingLate(fc) == fc > MAX_SYNC_FAILURES

\* worker: if failcount >= MAX_SYNC_FAILURES: ... return
Dropping(fc) == fc >= MAX_SYNC_FAILURES

\* A mutant of SleepTime: the delay does not grow with failcount.
SleepTimeFlat(fc) == TIME_SLEEP_FAILURE

\* worker: sleeptime = failcount * TIME_SLEEP_FAILURE
SleepTime(fc) == fc * TIME_SLEEP_FAILURE

\* A mutant of Failing: the back-off branch is never taken.
FailingNever(fc) == FALSE

\* worker: elif failcount:
Failing(fc) == fc # 0

\* A mutant of NeedOptimize: the optimization starts at MAX_CHANGES_SYNC.
NeedOptimizeAtSync(n) == n >= MAX_CHANGES_SYNC

\* worker: if len(destination.queue) >= MAX_CHANGES:
NeedOptimize(n) == n >= MAX_CHANGES

\* A mutant of NeedSync: every optimization is followed by a synchronize.
NeedSyncAlways(n) == TRUE

\* worker: if len(destination.queue) >= MAX_CHANGES_SYNC:
NeedSync(n) == n >= MAX_CHANGES_SYNC

\* worker: failcount = 0 if destination.synchronize() else failcount + 1
AfterRetry(fc, ok) == IF ok THEN 0 ELSE fc + 1

\* A mutant of AfterFlush: a failed flush is not counted.
AfterFlushForget(ok) == 0

\* worker: failcount = 0 if destination.synchronize() else 1
AfterFlush(ok) == IF ok THEN 0 ELSE 1

\* The history variable step after a step of worker d.
Step(d, kind, calls, flushed) ==
  [step EXCEPT ![d] = [kind |-> kind, calls |-> calls, flushed |-> flushed]]

\* The history of synchronize calls of worker d after one returning ok.
Synced(d, r) ==
  /\ fails' = [fails EXCEPT ![d] = IF r.ret THEN 0 ELSE @ + 1]
  /\ totalSleep' = [totalSleep EXCEPT ![d] = IF r.ret THEN 0 ELSE @]
  /\ anyFail' = (anyFail \/ r.failed)

Init ==
  /\ iq = EmptyQueue
  /\ last = NoCall
  /\ DestIdle
  /\ fs \in SysFs
  /\ dry_run \in BOOLEAN
  /\ initial_sync \in BOOLEAN
  /\ nworkers = 1
  /\ SysIdle

\* monitor(source), called last by init():
\* _watchmanager.add_watch(source.path, MONITOR_EV, rec=True, auto_add=True)
AddWatch ==
  /\ ~monitoring
  /\ ~watching
  /\ watching' = TRUE
  /\ UNCHANGED << iq, last, destvars, fs, monitoring, dry_run, initial_sync,
                  nworkers, event, chan, queue, pc, failcount, timer,
                  sleepleft, dpc, produced, received, fails, totalSleep,
                  viaInitial, slept, sinceLast, anyFail, step >>

\* A mutant of Monitor: _monitoring is set without waiting for add_watch.
MonitorEarly ==
  /\ ~monitoring
  /\ monitoring' = TRUE
  /\ UNCHANGED << iq, last, destvars, fs, dry_run, initial_sync, nworkers,
                  watching, event, chan, queue, pc, failcount, timer,
                  sleepleft, dpc, produced, received, fails, totalSleep,
                  viaInitial, slept, sinceLast, anyFail, step >>

\* monitor(source), after add_watch: _monitoring.set()
Monitor ==
  /\ ~monitoring
  /\ watching
  /\ monitoring' = TRUE
  /\ UNCHANGED << iq, last, destvars, fs, dry_run, initial_sync, nworkers,
                  watching, event, chan, queue, pc, failcount, timer,
                  sleepleft, dpc, produced, received, fails, totalSleep,
                  viaInitial, slept, sinceLast, anyFail, step >>

\* worker, from _monitoring.wait() to the head of the loop: the initial
\* sync if requested, then timer.start(TIMER_LIMIT) and failcount = 0.
WorkerStart(d) ==
  /\ pc[d] = "wait"
  /\ monitoring
  /\ IF initial_sync
     THEN \E exitT, exitD \in BOOLEAN :
            LET r == synchronize(add(queue[d], Item(SourcePath, TRUE)),
                                 exitT, exitD)
            IN  /\ queue' = [queue EXCEPT ![d] = r.queue]
                /\ Synced(d, r)
                /\ IF r.ret
                   THEN /\ timer' = [timer EXCEPT ![d] = TimerStart]
                        /\ pc' = [pc EXCEPT ![d] = "loop"]
                        /\ step' = Step(d, "start",
                                        << "add", "synchronize", "start" >>,
                                        r.calls # << >>)
                        /\ UNCHANGED viaInitial
                   ELSE /\ pc' = [pc EXCEPT ![d] = "dropped"]
                        /\ viaInitial' = [viaInitial EXCEPT ![d] = TRUE]
                        /\ step' = Step(d, "start",
                                        << "add", "synchronize" >>,
                                        r.calls # << >>)
                        /\ UNCHANGED timer
     ELSE /\ timer' = [timer EXCEPT ![d] = TimerStart]
          /\ pc' = [pc EXCEPT ![d] = "loop"]
          /\ step' = Step(d, "start", << "start" >>, FALSE)
          /\ UNCHANGED << queue, fails, totalSleep, anyFail, viaInitial >>
  /\ failcount' = [failcount EXCEPT ![d] = 0]
  /\ UNCHANGED << iq, last, destvars, fs, monitoring, dry_run, initial_sync,
                  nworkers, watching, event, chan, sleepleft, dpc, produced,
                  received, slept, sinceLast >>

\* worker, head of the loop with failcount >= MAX_SYNC_FAILURES: return.
WorkerDrop(d) ==
  /\ pc[d] = "loop"
  /\ Dropping(failcount[d])
  /\ pc' = [pc EXCEPT ![d] = "dropped"]
  /\ UNCHANGED << iq, last, destvars, fs, monitoring, dry_run, initial_sync,
                  nworkers, watching, event, chan, queue, failcount, timer,
                  sleepleft, dpc, produced, received, fails, totalSleep,
                  viaInitial, slept, sinceLast, anyFail, step >>

\* worker, head of the loop with 0 < failcount: time.sleep(sleeptime) begins.
WorkerSleep(d) ==
  /\ pc[d] = "loop"
  /\ ~Dropping(failcount[d])
  /\ Failing(failcount[d])
  /\ sleepleft' = [sleepleft EXCEPT ![d] = SleepTime(failcount[d])]
  /\ slept' = [slept EXCEPT ![d] = 0]
  /\ pc' = [pc EXCEPT ![d] = "sleep"]
  /\ UNCHANGED << iq, last, destvars, fs, monitoring, dry_run, initial_sync,
                  nworkers, watching, event, chan, queue, failcount, timer,
                  dpc, produced, received, fails, totalSleep, viaInitial,
                  sinceLast, anyFail, step >>

\* worker, time.sleep returns: the retry, then continue.
WorkerRetry(d) ==
  /\ pc[d] = "sleep"
  /\ sleepleft[d] = 0
  /\ \E exitT, exitD \in BOOLEAN :
       LET r == synchronize(queue[d], exitT, exitD)
       IN  /\ queue' = [queue EXCEPT ![d] = r.queue]
           /\ failcount' = [failcount EXCEPT ![d] = AfterRetry(@, r.ret)]
           /\ Synced(d, r)
           /\ step' = Step(d, "retry", << "synchronize" >>, r.calls # << >>)
  /\ pc' = [pc EXCEPT ![d] = "loop"]
  /\ UNCHANGED << iq, last, destvars, fs, monitoring, dry_run, initial_sync,
                  nworkers, watching, event, chan, timer, sleepleft, dpc,
                  produced, received, viaInitial, slept, sinceLast >>

\* A mutant of ChanGet: the newest item is taken.
ChanGetLast(c) == [item |-> c[Len(c)], rest |-> SubSeq(c, 1, Len(c) - 1)]

\* Queue.get on a non-empty channel: the oldest item.
ChanGet(c) == [item |-> Head(c), rest |-> Tail(c)]

\* worker, q.get returns an item (Queue.get hands out an item whenever the
\* channel holds one, whatever the timeout): queue.add, then the size
\* thresholds.
WorkerGet(d) ==
  /\ pc[d] = "loop"
  /\ ~Failing(failcount[d])
  /\ ~Dropping(failcount[d])
  /\ chan[d] # << >>
  /\ LET g  == ChanGet(chan[d])
         q1 == add(queue[d], g.item)
     IN  /\ chan' = [chan EXCEPT ![d] = g.rest]
         /\ received' = [received EXCEPT ![d] = Append(@, g.item)]
         /\ IF NeedOptimize(QLen(q1))
            THEN \E q2 \in { optimize(q1, fs) } :
                 IF NeedSync(QLen(q2))
                 THEN \E q3 \in { optimize(q2, fs) } :
                      \E exitT, exitD \in BOOLEAN :
                        LET r == synchronize(q3, exitT, exitD)
                        IN  /\ queue' = [queue EXCEPT ![d] = r.queue]
                            /\ failcount' =
                                 [failcount EXCEPT ![d] = AfterFlush(r.ret)]
                            /\ Synced(d, r)
                            /\ timer' = [timer EXCEPT ![d] = TimerReset(@)]
                            /\ step' = Step(d, "get",
                                            << "add", "optimize", "optimize",
                                               "synchronize", "reset" >>,
                                            r.calls # << >>)
                 ELSE /\ queue' = [queue EXCEPT ![d] = q2]
                      /\ step' = Step(d, "get", << "add", "optimize" >>,
                                      FALSE)
                      /\ UNCHANGED << failcount, timer, fails, totalSleep,
                                      anyFail >>
            ELSE /\ queue' = [queue EXCEPT ![d] = q1]
                 /\ step' = Step(d, "get", << "add" >>, FALSE)
                 /\ UNCHANGED << failcount, timer, fails, totalSleep,
                                 anyFail >>
  /\ UNCHANGED << iq, last, destvars, fs, monitoring, dry_run, initial_sync,
                  nworkers, watching, event, pc, sleepleft, dpc, produced,
                  viaInitial, slept, sinceLast >>

\* worker, q.get raises Queue.Empty: the timeout has run out on an empty
\* channel.  A non-empty queue is optimized and synchronized; timer.reset().
WorkerTimeout(d) ==
  /\ pc[d] = "loop"
  /\ ~Failing(failcount[d])
  /\ ~Dropping(failcount[d])
  /\ chan[d] = << >>
  /\ TimerRemaining(timer[d]) = 0
  /\ IF QLen(queue[d]) # 0
     THEN \E q2 \in { optimize(queue[d], fs) } :
          \E exitT, exitD \in BOOLEAN :
            LET r == synchronize(q2, exitT, exitD)
            IN  /\ queue' = [queue EXCEPT ![d] = r.queue]
                /\ failcount' = [failcount EXCEPT ![d] = AfterFlush(r.ret)]
                /\ Synced(d, r)
                /\ step' = Step(d, "timeout",
                                << "optimize", "synchronize", "reset" >>,
                                r.calls # << >>)
     ELSE /\ step' = Step(d, "timeout", << "reset" >>, FALSE)
          /\ UNCHANGED << queue, failcount, fails, totalSleep, anyFail >>
  /\ timer' = [timer EXCEPT ![d] = TimerReset(@)]
  /\ UNCHANGED << iq, last, destvars, fs, monitoring, dry_run, initial_sync,
                  nworkers, watching, event, chan, pc, sleepleft, dpc,
                  produced, received, viaInitial, slept, sinceLast >>

\* The events delivered for the watch mask MONITOR_EV.
EventKinds == { "IN_CREATE", "IN_DELETE", "IN_ATTRIB", "IN_MOVE_SELF",
                "IN_MOVED_FROM", "IN_MOVED_TO", "IN_CLOSE_WRITE" }

Event(kind, dir, path, name) ==
  [kind |-> kind, dir |-> dir, path |-> path, name |-> name]

\* ProcessEvent.process_default
process_default(ev) == Item(ev.path, FALSE)

\* ProcessEvent.process_IN_CREATE
process_IN_CREATE(ev) ==
  IF ev.dir THEN Item(normpath(join(ev.path, ev.name)), TRUE)
  ELSE process_default(ev)

\* A mutant of process_IN_MOVED_TO: a renamed directory is not queued
\* recursively.
process_IN_MOVED_TO_default(ev) == process_default(ev)

\* ProcessEvent.process_IN_MOVED_TO
process_IN_MOVED_TO(ev) ==
  IF ev.dir THEN Item(normpath(join(ev.path, ev.name)), TRUE)
  ELSE process_default(ev)

\* ProcessEvent called with an event: the handler named after the event
\* kind where the class has one, process_default otherwise.  The result is
\* the item the handler calls queue_item with.
ProcessEvent(ev) ==
  IF ev.kind = "IN_CREATE" THEN process_IN_CREATE(ev)
  ELSE IF ev.kind = "IN_MOVED_TO" THEN process_IN_MOVED_TO(ev)
  ELSE process_default(ev)

\* The events of Spec and SpecN: a deletion in the source directory and the
\* creation of the directory "b" in it.
SysEvents == { Event("IN_DELETE", FALSE, SourcePath, << "b" >>),
               Event("IN_CREATE", TRUE, SourcePath, << "b" >>) }

\* An event handler runs and calls queue_item(item).
Produce(ev) ==
  /\ monitoring
  /\ dpc.at = "idle"
  /\ Len(produced) < MaxProduced
  /\ event' = ev
  /\ LET item == ProcessEvent(ev)
     IN  /\ produced' = Append(produced, item)
         /\ dpc' = [at |-> "put", item |-> item, k |-> 1]
  /\ sinceLast' = 0
  /\ UNCHANGED << iq, last, destvars, fs, monitoring, dry_run, initial_sync,
                  nworkers, watching, chan, queue, pc, failcount, timer,
                  sleepleft, received, fails, totalSleep, viaInitial, slept,
                  anyFail, step >>

\* Queue.put on a channel with room.
ChanPut(c, item) == Append(c, item)

\* queue_item: for q in _queues: q.put(item); put blocks while q is full.
Put ==
  /\ dpc.at = "put"
  /\ Len(chan[dpc.k]) < MAX_QUEUE_LEN
  /\ chan' = [chan EXCEPT ![dpc.k] = ChanPut(@, dpc.item)]
  /\ dpc' = IF dpc.k + 1 <= nworkers
            THEN [dpc EXCEPT !.k = @ + 1]
            ELSE [dpc EXCEPT !.at = "idle"]
  /\ UNCHANGED << iq, last, destvars, fs, monitoring, dry_run, initial_sync,
                  nworkers, watching, event, queue, pc, failcount, timer,
                  sleepleft, produced, received, fails, totalSleep,
                  viaInitial, slept, sinceLast, anyFail, step >>

\* The filesystem changes under the program.
FsChange ==
  /\ \E p \in SysPaths : FsToggle(fs, p, SysPaths)
  /\ UNCHANGED << iq, last, destvars, sysvars >>

\* A thread is blocked: nothing it can do until time passes or another
\* thread acts.
WorkerBlocked(d) ==
  \/ pc[d] = "dropped"
  \/ pc[d] = "sleep" /\ sleepleft[d] > 0
  \/ /\ pc[d] = "loop"
     /\ ~Failing(failcount[d])
     /\ ~Dropping(failcount[d])
     /\ chan[d] = << >>
     /\ TimerRemaining(timer[d]) > 0

DispatcherBlocked ==
  \/ dpc.at = "idle"
  \/ dpc.at = "put" /\ Len(chan[dpc.k]) >= MAX_QUEUE_LEN

\* One unit of time passes.  A timer's age stops counting at TIMER_LIMIT
\* (remaining() is 0 from there on) and sinceLast just above it.
Tick ==
  /\ monitoring
  /\ \A d \in 1 .. nworkers : WorkerBlocked(d)
  /\ DispatcherBlocked
  /\ timer' = [d \in Dests |->
                 IF timer[d].running
                 THEN [timer[d] EXCEPT !.age = Min(@ + 1, TIMER_LIMIT)]
                 ELSE timer[d]]
  /\ sleepleft' = [d \in Dests |->
                     IF pc[d] = "sleep" THEN sleepleft[d] - 1 ELSE sleepleft[d]]
  /\ slept' = [d \in Dests |->
                 IF pc[d] = "sleep" THEN slept[d] + 1 ELSE slept[d]]
  /\ totalSleep' = [d \in Dests |->
                      IF pc[d] = "sleep" THEN totalSleep[d] + 1
                      ELSE totalSleep[d]]
  /\ sinceLast' = Min(sinceLast + 1, TIMER_LIMIT + 1)
  /\ UNCHANGED << iq, last, destvars, fs, monitoring, dry_run, initial_sync,
                  nworkers, watching, event, chan, queue, pc, failcount, dpc,
                  produced, received, fails, viaInitial, anyFail, step >>

Next ==
  \/ AddWatch
  \/ Monitor
  \/ \E d \in 1 .. nworkers : WorkerStart(d)
  \/ \E d \in 1 .. nworkers : WorkerDrop(d)
  \/ \E d \in 1 .. nworkers : WorkerSleep(d)
  \/ \E d \in 1 .. nworkers : WorkerRetry(d)
  \/ \E d \in 1 .. nworkers : WorkerGet(d)
  \/ \E d \in 1 .. nworkers : WorkerTimeout(d)
  \/ \E ev \in SysEvents : Produce(ev)
  \/ Put
  \/ FsChange
  \/ Tick

Spec == Init /\ [][Next]_vars

(***************************************************************************)
(* Two destinations behind the one dispatcher (SpecN).  The initial sync  *)
(* is requested: where it succeeds the worker goes on as without it.       *)
(***************************************************************************)
InitN ==
  /\ iq = EmptyQueue
  /\ last = NoCall
  /\ DestIdle
  /\ fs = { P_a, P_a_b }
  /\ dry_run = FALSE
  /\ initial_sync = TRUE
  /\ nworkers = 2
  /\ SysIdle

NextN ==
  \/ AddWatch
  \/ Monitor
  \/ \E d \in 1 .. nworkers : WorkerStart(d)
  \/ \E d \in 1 .. nworkers : WorkerDrop(d)
  \/ \E d \in 1 .. nworkers : WorkerSleep(d)
  \/ \E d \in 1 .. nworkers : WorkerRetry(d)
  \/ \E d \in 1 .. nworkers : WorkerGet(d)
  \/ \E d \in 1 .. nworkers : WorkerTimeout(d)
  \/ \E ev \in SysEvents : Produce(ev)
  \/ Put
  \/ Tick

SpecN == InitN /\ [][NextN]_vars

(***************************************************************************)
(* Spec with the scheduling the threads get: the main thread goes on       *)
(* through monitor(), and a worker that _monitoring.wait() lets go runs.   *)
(***************************************************************************)
SpecF ==
  /\ Init
  /\ [][Next]_vars
  /\ WF_vars(AddWatch)
  /\ WF_vars(Monitor)
  /\ WF_vars(WorkerStart(1))

(***************************************************************************)
(* The event handlers under every kind of event (SpecE): two destinations, *)
(* dry-run transfers, so that no destination fails, and the events coming  *)
(* faster than the timers run: the workers flush on the size thresholds.   *)
(***************************************************************************)
\* The events of SpecE: every kind, on a directory or not, in the source
\* directory, with the name "b" or with no name.
Events == { Event(kind, dir, SourcePath, name) :
              kind \in EventKinds, dir \in BOOLEAN,
              name \in { << "b" >>, << >> } }

InitE ==
  /\ iq = EmptyQueue
  /\ last = NoCall
  /\ DestIdle
  /\ fs = { P_a, P_a_b }
  /\ dry_run = TRUE
  /\ initial_sync = FALSE
  /\ nworkers = 2
  /\ SysIdle

NextE ==
  \/ AddWatch
  \/ Monitor
  \/ \E d \in 1 .. nworkers : WorkerStart(d)
  \/ \E d \in 1 .. nworkers : WorkerGet(d)
  \/ \E ev \in Events : Produce(ev)
  \/ Put

SpecE == InitE /\ [][NextE]_vars

(***************************************************************************)
(* Properties                                                              *)
(***************************************************************************)
\* a is a strict descendant of b: a is strictly longer than b + "/" and
\* starts with it.
StrictDescendant(a, b) ==
  LET prefix == b \o << "/" >>
  IN  Len(a) > Len(prefix) /\ SubSeq(a, 1, Len(prefix)) = prefix

IsPrefix(s, t) == Len(s) <= Len(t) /\ s = SubSeq(t, 1, Len(s))

Workers == 1 .. nworkers

\* C1 (P1 Dedup), as claimed: after any sequence of add calls every path
\* occurs at most once across dirs and trees, and dirs and trees are
\* disjoint.  ItemQueue.add breaks it: a recursive item is appended to trees
\* without a look at dirs.
C1_Dedup ==
  /\ NoDup(iq.dirs)
  /\ NoDup(iq.trees)
  /\ Range(iq.dirs) \cap Range(iq.trees) = {}

\* C2 (R3), as claimed: from every queue state and for every path p, adding
\* the non-recursive then the recursive item, the recursive then the
\* non-recursive item, and the recursive item alone all leave the same dirs
\* and trees (as sets).  ItemQueue.add breaks it (see C1).
AsSets(q) == [dirs |-> Range(q.dirs), trees |-> Range(q.trees)]

C2_AddOrder ==
  \A p \in Paths :
    LET ft == add(add(iq, Item(p, FALSE)), Item(p, TRUE))
        tf == add(add(iq, Item(p, TRUE)), Item(p, FALSE))
        t  == add(iq, Item(p, TRUE))
    IN  AsSets(ft) = AsSets(tf) /\ AsSets(tf) = AsSets(t)

\* C3 (P2 Subtree collapse): immediately after optimize() no element of
\* trees is a strict descendant of another element of trees, and no element
\* of dirs is a strict descendant of an element of trees.
C3_SubtreeCollapse ==
  last.op = "optimize" =>
    /\ \A a, b \in Range(iq.trees) : ~StrictDescendant(a, b)
    /\ \A a \in Range(iq.dirs) : \A b \in Range(iq.trees) :
         ~StrictDescendant(a, b)

\* The scenario of the specification: dirs ["/a/b/c"], trees ["/a", "/a/b"]
\* collapse to trees ["/a"] and no dirs.
C3_Witness ==
  /\ last.op = "optimize"
  /\ last.pre = [dirs |-> << P_a_b_c >>, trees |-> << P_a, P_a_b >>]
  /\ iq = [dirs |-> << >>, trees |-> << P_a >>]

\* C4 (P3 Existence filter): immediately after optimize() every path left
\* in dirs or trees exists on the filesystem as the call observed it: a
\* path that does not exist is in neither collection, and the paths that
\* were dropped for not existing are simply gone (the call has no failure
\* outcome: the queue is otherwise what the collapse left).
C4_ExistenceFilter ==
  last.op = "optimize" =>
    /\ Range(iq.dirs) \cup Range(iq.trees) \subseteq last.seen
    /\ \A p \in Paths \ last.seen :
         p \notin Range(iq.dirs) /\ p \notin Range(iq.trees)
    /\ Range(iq.dirs) \subseteq Range(last.pre.dirs)
    /\ Range(iq.trees) \subseteq Range(last.pre.trees)

\* optimize() dropped a deleted tree and a deleted dir and kept a path that
\* exists.
C4_Witness ==
  /\ last.op = "optimize"
  /\ \E p \in Range(last.pre.trees) : p \notin last.seen
  /\ \E p \in Range(last.pre.dirs) : p \notin last.seen
  /\ QLen(iq) > 0

\* C5 (P7 Drop bound), as claimed: a destination is dropped exactly when
\* MAX_SYNC_FAILURES consecutive synchronize calls have failed and never
\* after fewer.  A failed initial sync breaks it: the worker returns after
\* that one failure.
C5_DropBoundAsClaimed ==
  \A d \in Workers : pc[d] = "dropped" => fails[d] = MAX_SYNC_FAILURES

\* C5, amended: a worker whose requested initial sync fails is dropped after
\* that single failure; every other drop happens exactly when
\* MAX_SYNC_FAILURES consecutive synchronize calls have failed: never after
\* fewer, and a worker with that many consecutive failures makes no further
\* synchronize call.  A successful synchronize restarts the count from
\* zero: failcount is the number of consecutive failures.
C5_DropBound ==
  \A d \in Workers :
    /\ pc[d] = "dropped" =>
         \/ viaInitial[d] /\ initial_sync /\ fails[d] = 1
         \/ ~viaInitial[d] /\ fails[d] = MAX_SYNC_FAILURES
    /\ fails[d] <= MAX_SYNC_FAILURES
    /\ pc[d] \in { "loop", "sleep" } => failcount[d] = fails[d]
    /\ fails[d] = MAX_SYNC_FAILURES => pc[d] \in { "loop", "dropped" }

\* A worker dropped in the loop, after MAX_SYNC_FAILURES failures in a row.
C5_Witness ==
  /\ pc[1] = "dropped"
  /\ ~viaInitial[1]
  /\ fails[1] = MAX_SYNC_FAILURES

\* C6 (P6 Back-off): a synchronize call made from the back-off (the retry
\* that follows k = fails consecutive failures, k >= 1) comes after exactly
\* k * TIME_SLEEP_FAILURE of sleep, and none is made earlier in the sleep.
C6_BackOff ==
  [][ \A d \in Workers :
        (pc[d] = "sleep" /\ (fails'[d] # fails[d] \/ queue'[d] # queue[d]))
          => /\ fails[d] >= 1
             /\ slept[d] = fails[d] * TIME_SLEEP_FAILURE ]_vars

\* The second retry has been made, after 2 * TIME_SLEEP_FAILURE of sleep,
\* and it succeeded.
C6_Witness ==
  /\ pc[1] = "loop"
  /\ slept[1] = 2 * TIME_SLEEP_FAILURE
  /\ fails[1] = 0
  /\ QLen(queue[1]) = 0

DispatcherStuckOn(a) ==
  /\ pc[a] = "dropped"
  /\ dpc.at = "put"
  /\ dpc.k = a
  /\ Len(chan[a]) >= MAX_QUEUE_LEN

C8_Isolation ==
  \A a \in Workers : \A b \in Workers \ { a } :
    ~(DispatcherStuckOn(a) /\ b > a /\ pc[b] = "loop" /\ chan[b] = << >>)

\* C9 (P4 FIFO per destination): what worker d has received from its
\* channel, followed by what the channel holds, is the sequence of produced
\* items up to the last one put on that channel: what it has received is a
\* prefix of what was produced, nothing reordered, lost or duplicated.
Delivered(d) ==
  Len(produced) - (IF dpc.at = "put" /\ dpc.k <= d THEN 1 ELSE 0)

C9_Fifo ==
  \A d \in Workers :
    /\ IsPrefix(received[d], produced)
    /\ received[d] \o chan[d] = SubSeq(produced, 1, Delivered(d))

\* The second worker has received two different items in their order.
C9_Witness ==
  /\ nworkers = 2
  /\ Len(received[2]) >= 2
  /\ received[2][1] # received[2][2]

\* C10 (Synchronize outcome): synchronize on an empty queue returns success
\* and invokes no transfer; otherwise it returns success iff neither
\* transfer failed (the queue is then empty); a half whose transfer
\* succeeded is emptied and a half whose transfer failed keeps exactly its
\* paths, whatever happened to the other half.
C10_SynchronizeOutcome ==
  last.op = "synchronize" =>
    IF QLen(last.pre) = 0
    THEN last.ret /\ last.calls = << >> /\ iq = last.pre
    ELSE LET okT == last.pre.trees = << >> \/ last.exit[1]
             okD == last.pre.dirs = << >> \/ last.exit[2]
         IN  /\ last.ret <=> (okT /\ okD)
             /\ last.ret <=> (QLen(iq) = 0)
             /\ iq.trees = (IF okT THEN << >> ELSE last.pre.trees)
             /\ iq.dirs = (IF okD THEN << >> ELSE last.pre.dirs)
             /\ ("recursive" \in Range(last.calls))
                  <=> (last.pre.trees # << >>)
             /\ ("non-recursive" \in Range(last.calls))
                  <=> (last.pre.dirs # << >>)

\* The recursive transfer failed and the non-recursive one succeeded: the
\* dirs are gone, the trees are kept, the call reports failure.
C10_Witness ==
  /\ last.op = "synchronize"
  /\ last.pre.trees # << >>
  /\ last.pre.dirs # << >>
  /\ ~last.exit[1]
  /\ last.exit[2]
  /\ iq = [dirs |-> << >>, trees |-> last.pre.trees]
  /\ ~last.ret

\* C11 (Latency bound under steady load), as claimed: a worker that polls
\* its channel with the timer run out (timer.remaining() = 0) and a
\* non-empty ItemQueue flushes in that iteration: it does not receive an
\* item and go on without a synchronize.  The code breaks it: q.get hands
\* out a waiting item whatever the timeout, and below MAX_CHANGES nothing
\* is flushed.
C11_LatencyBound ==
  [][ \A d \in Workers :
        ( /\ pc[d] = "loop"
          /\ failcount[d] = 0
          /\ TimerRemaining(timer[d]) = 0
          /\ QLen(queue[d]) > 0
          /\ received'[d] # received[d] )
          => ("synchronize" \in Range(step'[d].calls)) ]_vars

\* C12 (Startup barrier): _monitoring is unset at first, is set only once
\* the watch on the source path is registered and is never unset or set
\* again; until it is set every worker waits, with nothing added to its
\* ItemQueue, no synchronize made, its timer not started and nothing
\* received; it does get set, and once it is set every worker leaves the
\* wait.
C12_StartupBarrier ==
  /\ ~monitoring
  /\ [][ /\ monitoring => monitoring'
         /\ (monitoring' /\ ~monitoring) => watching ]_vars
  /\ [](monitoring => watching)
  /\ [](~monitoring =>
          \A d \in Workers :
            /\ pc[d] = "wait"
            /\ queue[d] = EmptyQueue
            /\ ~timer[d].running
            /\ received[d] = << >>
            /\ step[d] = NoStep)
  /\ <>monitoring
  /\ (monitoring ~> (\A d \in Workers : pc[d] # "wait"))

\* The barrier is open and the worker has gone through its initial sync
\* into the loop.
C12_Witness ==
  /\ monitoring
  /\ watching
  /\ initial_sync
  /\ pc[1] = "loop"
  /\ timer[1].running
  /\ "synchronize" \in Range(step[1].calls)

\* C13 (Event translation): the handler of an event calls queue_item with
\* one item: the directory path/name itself, recursive, for a create or
\* moved-to event on a directory, and the watched path, non-recursive, for
\* every other event; queue_item puts that one item once on every channel.
ExpectedItem(ev) ==
  IF ev.kind \in { "IN_CREATE", "IN_MOVED_TO" } /\ ev.dir
  THEN Item(IF ev.name = << >> THEN ev.path
            ELSE ev.path \o << "/" >> \o ev.name, TRUE)
  ELSE Item(ev.path, FALSE)

C13_EventTranslation ==
  /\ (event = NoEvent) <=> (produced = << >>)
  /\ event # NoEvent => produced[Len(produced)] = ExpectedItem(event)
  /\ dpc.at = "put" => dpc.item = produced[Len(produced)]
  /\ \A d \in Workers :
       received[d] \o chan[d] = SubSeq(produced, 1, Delivered(d))

\* A directory was moved into the source directory; its item, recursive,
\* is on the way to both destinations: received by one, waiting in the
\* channel of the other.
C13_Witness ==
  /\ event = Event("IN_MOVED_TO", TRUE, SourcePath, << "b" >>)
  /\ dpc.at = "idle"
  /\ received[1] = produced
  /\ Len(chan[2]) > 0
  /\ chan[2][Len(chan[2])] = Item(P_a_b, TRUE)

\* C14 (Destination shape classification), as claimed: a target is remote
\* iff it starts with "rsync://", or "::" occurs in it before any "/", or
\* ":" occurs in it before any "/"; otherwise it is local, with the final
\* component of its path as shortname and its normalized absolute path plus
\* "/" as path.  The code breaks it: it looks for "::" and ":" anywhere in
\* the string, so that a local path with a colon after a "/" is taken for
\* a remote one.
BeforeAnySlash(s, sub) == contains(split_first(s, << "/" >>), sub)

ClaimedRemote(s) ==
  \/ startswith(s, RsyncScheme)
  \/ BeforeAnySlash(s, << ":", ":" >>)
  \/ BeforeAnySlash(s, << ":" >>)

C14_Classification ==
  /\ dest.remote <=> ClaimedRemote(target)
  /\ ~ClaimedRemote(target) =>
       /\ dest.path = abspath(target) \o << "/" >>
       /\ endswith(dest.path, << "/" >> \o dest.name \o << "/" >>)

\* C15 (Maximum total back-off), as claimed: a worker dropped in the loop
\* has slept, over its run of consecutive failures, the sum of
\* k * TIME_SLEEP_FAILURE for k = 1 .. MAX_SYNC_FAILURES.  The code breaks
\* it: with failcount = MAX_SYNC_FAILURES the worker returns before it
\* sleeps, so the last term is never slept.
RECURSIVE SumTo(_)
SumTo(n) == IF n <= 0 THEN 0 ELSE n + SumTo(n - 1)

C15_TotalBackOff ==
  \A d \in Workers :
    (pc[d] = "dropped" /\ ~viaInitial[d]) =>
      totalSleep[d] = SumTo(MAX_SYNC_FAILURES) * TIME_SLEEP_FAILURE

\* C16 (Size-trigger policy): in a step that receives an item, optimize is
\* called iff the ItemQueue holds at least MAX_CHANGES paths after the add;
\* synchronize is called, and the timer reset, iff in addition it still
\* holds at least MAX_CHANGES_SYNC paths after that optimization, and then
\* a transfer is made; a step without synchronize leaves the timer and the
\* failure history alone.
C16_SizeTrigger ==
  [][ \A d \in Workers :
        received'[d] # received[d] =>
          LET item  == received'[d][Len(received'[d])]
              q1    == add(queue[d], item)
              q2    == optimize(q1, fs)
              calls == Range(step'[d].calls)
          IN  /\ "add" \in calls
              /\ ("optimize" \in calls) <=> (QLen(q1) >= MAX_CHANGES)
              /\ ("synchronize" \in calls)
                   <=> (QLen(q1) >= MAX_CHANGES /\ QLen(q2) >= MAX_CHANGES_SYNC)
              /\ ("reset" \in calls) <=> ("synchronize" \in calls)
              /\ ("synchronize" \in calls)
                   => (step'[d].flushed /\ timer'[d].age = 0)
              /\ ("synchronize" \notin calls)
                   => /\ timer'[d] = timer[d]
                      /\ fails'[d] = fails[d]
                      /\ failcount'[d] = failcount[d]
                      /\ queue'[d] = (IF "optimize" \in calls THEN q2 ELSE q1)
    ]_vars

\* MAX_CHANGES was reached, the optimization left fewer than
\* MAX_CHANGES_SYNC paths (they had been deleted) and nothing was
\* transferred.
C16_Witness ==
  /\ step[1].kind = "get"
  /\ step[1].calls = << "add", "optimize" >>
  /\ Len(received[1]) >= MAX_CHANGES
  /\ QLen(queue[1]) < MAX_CHANGES_SYNC
  /\ fails[1] = 0

\* C17 (Timer reset discipline), as claimed: every reset of the timer comes
\* right after an actual flush (a synchronize call on a non-empty queue) in
\* the same iteration.  The Queue.Empty branch breaks it: timer.reset() is
\* called there whether or not the queue held anything.
TimerWasReset(d) == timer[d].running /\ timer'[d].age < timer[d].age

C17_ResetOnlyAfterFlush ==
  [][ \A d \in Workers : TimerWasReset(d) => step'[d].flushed ]_vars

\* C17, amended: the receipt of an item alone never resets the timer; the
\* timer is reset at the end of every timeout iteration (q.get raised
\* Queue.Empty), whether or not there was anything to flush, and otherwise
\* only right after a size-triggered flush (a synchronize call on a
\* non-empty queue) in the same iteration.
C17_ResetDiscipline ==
  [][ \A d \in Workers :
        /\ TimerWasReset(d) =>
             \/ /\ step'[d].kind = "timeout"
                /\ chan[d] = << >>
                /\ TimerRemaining(timer[d]) = 0
                /\ received'[d] = received[d]
             \/ /\ step'[d].kind = "get"
                /\ received'[d] # received[d]
                /\ step'[d].flushed
        /\ (received'[d] # received[d] /\ ~step'[d].flushed)
             => timer'[d] = timer[d]
        /\ (pc[d] = "loop" /\ received'[d] = received[d]
              /\ "reset" \in Range(step'[d].calls) /\ step'[d] # step[d])
             => timer'[d].age = 0
    ]_vars

\* A size-triggered flush has just reset the timer, later than at its
\* start: more has been received than one threshold's worth.
C17_Witness ==
  /\ step[1].kind = "get"
  /\ step[1].flushed
  /\ "reset" \in Range(step[1].calls)
  /\ timer[1].age = 0
  /\ Len(received[1]) > MAX_CHANGES

\* C18 (Optimize idempotence): in every queue state reached by add calls
\* (and the other calls) and for the filesystem as it is, optimize();
\* optimize() leaves the same dirs and trees, as sets, as one optimize().
C18_OptimizeIdempotent ==
  \A once \in { optimize(iq, fs) } :
    AsSets(optimize(once, fs)) = AsSets(once)

\* optimize() has collapsed a chain of three nested trees to its root in one
\* pass, and one more optimize() changes nothing.
C18_Witness ==
  /\ last.op = "optimize"
  /\ Range(last.pre.trees) = { P_a, P_a_b, P_a_b_c }
  /\ last.pre.trees[1] = P_a_b_c
  /\ iq.trees = << P_a >>
  /\ optimize(iq, fs) = iq

\* C19 (Implicit bound on the staging queue): a worker about to receive
\* from its channel (in the loop, failcount = 0) holds fewer than
\* MAX_CHANGES paths, and no ItemQueue ever holds more than MAX_CHANGES.
C19_QueueBound ==
  \A d \in Workers :
    /\ QLen(queue[d]) <= MAX_CHANGES
    /\ (pc[d] = "loop" /\ failcount[d] = 0) => QLen(queue[d]) < MAX_CHANGES

\* The queue reached MAX_CHANGES, its flush failed and the worker is in
\* back-off with MAX_CHANGES paths staged.
C19_Witness ==
  /\ pc[1] \in { "loop", "sleep" }
  /\ failcount[1] > 0
  /\ QLen(queue[1]) = MAX_CHANGES
  /\ step[1].kind = "get"

\* C20 (Implicit back-off frame): while failcount > 0 the worker receives
\* nothing and calls neither add nor optimize: its ItemQueue changes only
\* in the retry after the sleep, which is one synchronize call on the paths
\* the failed attempt left; what is produced meanwhile is appended to the
\* channel, which only grows, up to MAX_QUEUE_LEN.
C20_BackOffFrame ==
  [][ \A d \in Workers :
        failcount[d] > 0 =>
          /\ received'[d] = received[d]
          /\ IsPrefix(chan[d], chan'[d])
          /\ Len(chan'[d]) <= MAX_QUEUE_LEN
          /\ (queue'[d] # queue[d] \/ step'[d] # step[d]) =>
               /\ pc[d] = "sleep"
               /\ sleepleft[d] = 0
               /\ step'[d].kind = "retry"
               /\ step'[d].calls = << "synchronize" >>
               /\ step'[d].flushed
               /\ queue'[d].dirs \in { << >>, queue[d].dirs }
               /\ queue'[d].trees \in { << >>, queue[d].trees }
    ]_vars

\* A retry has failed again; the worker sleeps with the same paths staged
\* and an item produced meanwhile waits in its channel.
C20_Witness ==
  /\ pc[1] = "sleep"
  /\ failcount[1] = 2
  /\ step[1].kind = "retry"
  /\ QLen(queue[1]) > 0
  /\ Len(chan[1]) > 0

====
